---- MODULE Spec2Model ----
(***************************************************************************)
(* Model of the streaming chat-completion client of pkg/llm               *)
(* (openAIProvider.Ask / openAIProvider.AskStream).                        *)
(*                                                                         *)
(* Strings are sequences of characters.  A JSON text is carried as one     *)
(* element of such a sequence (the element is the JSON text itself), so    *)
(* that the line handling (ReadString, TrimSpace, HasPrefix, TrimPrefix)   *)
(* works on characters while json.Unmarshal is a table from JSON texts to  *)
(* the streamResponse they decode to.  A URL is the sequence of its `/`    *)
(* separators and of the segments between them, each segment one element. *)
(*                                                                         *)
(* The command line program of cmd/si (main, checkStdin, handleQuestion)   *)
(* and Config.Validate of pkg/config drive the same provider: main's       *)
(* position is mpc, and mpc = "off" is a provider used without main.       *)
(***************************************************************************)
EXTENDS Integers, Sequences, FiniteSets, TLC

\* ------------------------------------------------------------------ bounds
\* Largest number of newline-terminated lines of a response body.
MaxLines == 2
\* The caller's callback fails at its k-th invocation, k <= MaxCbFail, or never.
MaxCbFail == 1
\* Largest number of trailing slashes of a configured base URL.
MaxSlashes == 2
\* Largest number of question words on the command line.
MaxWords == 2

\* ------------------------------------------------------- program constants
\* http.StatusOK
StatusOK == 200

\* ----------------------------------------------------------------- strings
NL == "\n"
Whitespace == {" ", "\t", "\r", "\n"}

RECURSIVE TrimLeft(_)
TrimLeft(s) ==
    IF s # <<>> /\ Head(s) \in Whitespace THEN TrimLeft(Tail(s)) ELSE s

RECURSIVE TrimRight(_)
TrimRight(s) ==
    IF s # <<>> /\ s[Len(s)] \in Whitespace
    THEN TrimRight(SubSeq(s, 1, Len(s) - 1))
    ELSE s

\* strings.TrimSpace
TrimSpace_newlineOnly(s) ==
    IF s # <<>> /\ s[Len(s)] = NL THEN SubSeq(s, 1, Len(s) - 1) ELSE s
TrimSpace(s) == TrimRight(TrimLeft(s))

\* strings.HasPrefix
HasPrefix(s, p) == Len(s) >= Len(p) /\ SubSeq(s, 1, Len(p)) = p

\* strings.TrimPrefix
TrimPrefix(s, p) == IF HasPrefix(s, p) THEN SubSeq(s, Len(p) + 1, Len(s)) ELSE s

\* strings.HasSuffix
HasSuffix(s, p) ==
    Len(s) >= Len(p) /\ SubSeq(s, Len(s) - Len(p) + 1, Len(s)) = p

\* strings.TrimSuffix
TrimSuffix(s, p) == IF HasSuffix(s, p) THEN SubSeq(s, 1, Len(s) - Len(p)) ELSE s

\* strings.Contains
Contains(s, sub) ==
    \E i \in 0..(Len(s) - Len(sub)) : SubSeq(s, i + 1, i + Len(sub)) = sub

RECURSIVE Concat(_)
\* the elements of a sequence of strings written one after the other
Concat(ss) == IF ss = <<>> THEN <<>> ELSE Head(ss) \o Concat(Tail(ss))

\* the literal "data: "
DataPrefix == <<"d", "a", "t", "a", ":", " ">>
\* the literal "data: [DONE]"
DoneLine == DataPrefix \o <<"[", "D", "O", "N", "E", "]">>

\* ---------------------------------------------------------- JSON payloads
JsonA == "{\"choices\":[{\"index\":0,\"delta\":{\"content\":\"a\"},\"finish_reason\":null}]}"
JsonB == "{\"choices\":[{\"index\":0,\"delta\":{\"content\":\"bc\"},\"finish_reason\":null}]}"
JsonMulti == "{\"choices\":[{\"delta\":{\"content\":\"x\"}},{\"delta\":{\"content\":\"\"}},{\"delta\":{\"content\":\"y\"}}]}"
JsonRole == "{\"choices\":[{\"index\":0,\"delta\":{\"role\":\"assistant\"},\"finish_reason\":null}]}"
JsonNoChoices == "{\"id\":\"chatcmpl-123\",\"choices\":[]}"
JsonBad == "{\"choices\":[{"

\* streamChoice: only Delta.Content is read by AskStream
streamChoice(content) == [Content |-> content]

\* json.Unmarshal into a streamResponse: ok = FALSE is a syntax error.
\* Surrounding JSON whitespace is accepted by the decoder.
Unmarshal(payload) ==
    LET p == TrimSpace(payload) IN
    IF Len(p) # 1 THEN [ok |-> FALSE, Choices |-> <<>>]
    ELSE CASE p[1] = JsonA -> [ok |-> TRUE, Choices |-> <<streamChoice(<<"a">>)>>]
           [] p[1] = JsonB -> [ok |-> TRUE, Choices |-> <<streamChoice(<<"b", "c">>)>>]
           [] p[1] = JsonMulti ->
                [ok |-> TRUE,
                 Choices |-> <<streamChoice(<<"x">>), streamChoice(<<>>),
                               streamChoice(<<"y">>)>>]
           [] p[1] = JsonRole -> [ok |-> TRUE, Choices |-> <<streamChoice(<<>>)>>]
           [] p[1] = JsonNoChoices -> [ok |-> TRUE, Choices |-> <<>>]
           [] OTHER -> [ok |-> FALSE, Choices |-> <<>>]

\* ------------------------------------------------------- response bodies
\* The lines a mock transport serves, by kind; the body is their rendering.
LineKinds ==
    {"chunkA", "chunkB", "multi", "role", "nochoices", "done", "bad", "blank"}
TailKinds == {"none", "chunkA", "bad"}

LineText(kind) ==
    CASE kind = "chunkA" -> DataPrefix \o <<JsonA>>
      [] kind = "chunkB" -> DataPrefix \o <<JsonB>>
      [] kind = "multi" -> DataPrefix \o <<JsonMulti>>
      [] kind = "role" -> DataPrefix \o <<JsonRole>>
      [] kind = "nochoices" -> DataPrefix \o <<JsonNoChoices>>
      [] kind = "done" -> DoneLine
      [] kind = "bad" -> DataPrefix \o <<JsonBad>>
      [] kind = "blank" -> <<>>
      [] kind = "none" -> <<>>
      [] kind = "comment" -> <<":", " ", "k", "e", "e", "p">>
      [] kind = "event" -> <<"e", "v", "e", "n", "t", ":", " ", "m", "s", "g">>
      [] kind = "nospace" -> <<"d", "a", "t", "a", ":", JsonA>>
      [] kind = "nospacebad" -> <<"d", "a", "t", "a", ":", JsonBad>>
      [] kind = "text" -> <<"h", "e", "l", "l", "o">>

RECURSIVE RenderLines(_)
RenderLines(kinds) ==
    IF kinds = <<>> THEN <<>>
    ELSE LineText(Head(kinds)) \o <<NL>> \o RenderLines(Tail(kinds))

\* the bytes of the body: every line of `kinds` newline-terminated, then the
\* unterminated last line `tail` ("none": the body ends with a newline)
RenderBody(kinds, tail) == RenderLines(kinds) \o LineText(tail)

\* How a line of the body is written: ended by "\n", ended by "\r\n", or
\* with spaces and tabs around it.
LineStyles == {"lf", "crlf", "padded"}
Padding == <<" ", "\t">>
StyledLine(kind, style) ==
    CASE style = "lf" -> LineText(kind) \o <<NL>>
      [] style = "crlf" -> LineText(kind) \o <<"\r", NL>>
      [] style = "padded" -> Padding \o LineText(kind) \o Padding \o <<NL>>

RECURSIVE RenderStyledFrom(_, _, _)
RenderStyledFrom(kinds, styles, i) ==
    IF i > Len(kinds) THEN <<>>
    ELSE StyledLine(kinds[i], styles[i]) \o RenderStyledFrom(kinds, styles, i + 1)

\* the bytes of the body when line i of `kinds` is written in styles[i]
RenderStyled(kinds, styles, tail) ==
    RenderStyledFrom(kinds, styles, 1) \o LineText(tail)

\* Lines of an event stream that are not `data: ` lines: a comment, an event
\* field, `data:` with no space after it (before JSON and before text that is
\* not JSON), and plain text.
NonDataKinds == {"comment", "event", "nospace", "nospacebad", "text"}
NonDataScripts ==
    UNION {[1..n -> NonDataKinds \cup {"chunkA"}] : n \in 1..MaxLines}

Scripts == UNION {[1..n -> LineKinds] : n \in 0..MaxLines}


\* the HTTP statuses the mock transport answers with
Statuses == {200, 204, 404, 500}

\* failAt = NoFail: the transport serves the whole body and then end-of-stream
NoFail == 0 - 1

\* Offsets at which the transport may break the body off with a read error:
\* before the first byte, at a line boundary, or inside a line.  (An offset
\* inside a line stands for every offset inside that line: the reader never
\* looks at the bytes of a line whose newline has not arrived.)
FailPoints(b) ==
    {p \in 0..Len(b) : p = 0 \/ b[p] = NL \/ b[p] = ":"}

\* ------------------------------------------------------------- requests
Slash == <<"/">>
\* the literal "https://api.openai.com/v1"
DefaultBaseURL == <<"https:", "/", "/", "api.openai.com", "/", "v1">>
\* the literal "/chat/completions"
ChatCompletionsPath == <<"/", "chat", "/", "completions">>
\* the literal "gpt-4"
DefaultModel == <<"gpt-4">>
\* the Content of the system message
SystemPrompt == <<"You are an AI assistant being used from a terminal. Provide concise, direct responses optimized for command-line viewing. Prioritize brevity and clarity. Use markdown formatting when helpful for readability. Avoid unnecessary pleasantries or verbose explanations unless specifically requested.">>

\* fmt.Sprintf("openai/deployments/%s/chat/completions?api-version=...", name),
\* the part of the Azure endpoint after the base URL
AzurePath(name) ==
    <<"openai", "/", "deployments", "/">> \o name
        \o <<"/", "chat", "/", "completions", "?api-version=2024-12-01-preview">>

\* k slashes
RECURSIVE Slashes(_)
Slashes(k) == IF k = 0 THEN <<>> ELSE Slash \o Slashes(k - 1)

\* Base URLs a configuration file may hold, without their trailing slashes:
\* an API root, a full endpoint, an Azure resource, and a URL with a broken
\* percent-escape that url.Parse rejects.
BadEscape == "%zz"
Stems ==
    { DefaultBaseURL,
      DefaultBaseURL \o ChatCompletionsPath,
      <<"https:", "/", "/", "myresource.openai.azure.com">>,
      <<"https:", "/", "/", "localhost", "/", BadEscape>> }
BaseURLs == {<<>>} \cup {stem \o Slashes(k) : stem \in Stems, k \in 0..MaxSlashes}

\* config.OpenAIConfig
OpenAIConfig(baseURL, apiKey, modelName, azureDeploymentName) ==
    [BaseURL |-> baseURL, APIKey |-> apiKey, ModelName |-> modelName,
     AzureDeploymentName |-> azureDeploymentName]
Configs ==
    {OpenAIConfig(b, k, m, a) :
        b \in BaseURLs, k \in {<<>>, <<"test-api-key">>},
        m \in {<<>>, <<"gpt-4o">>}, a \in {<<>>, <<"my-deployment">>}}
\* the configuration of llm_test.go:66-70
TestConfig == OpenAIConfig(DefaultBaseURL, <<"test-api-key">>, <<>>, <<>>)

\* Questions: text, and text with a byte that is not valid UTF-8.
InvalidByte == "\\xff"
ReplacementChar == "\\ufffd"
Questions == {<<"h", "i">>, <<"h", InvalidByte>>}
TestQuestion == <<"h", "i">>

\* textproto.CanonicalMIMEHeaderKey, which http.Header.Set and Get apply
CanonicalHeaderKey(name) ==
    CASE name = "api-key" -> "Api-Key"
      [] name = "content-type" -> "Content-Type"
      [] name = "authorization" -> "Authorization"
      [] OTHER -> name

\* http.Header as the set of its <<key, value>> pairs
HeaderSet(h, name, value) ==
    {x \in h : x[1] # CanonicalHeaderKey(name)}
        \cup {<<CanonicalHeaderKey(name), value>>}
HeaderHas(h, name) == \E x \in h : x[1] = CanonicalHeaderKey(name)
HeaderGet(h, name) ==
    IF HeaderHas(h, name)
    THEN (CHOOSE x \in h : x[1] = CanonicalHeaderKey(name))[2]
    ELSE <<>>

\* encoding/json writes a string with every invalid UTF-8 byte replaced by
\* U+FFFD
EncodeString(str) ==
    [i \in 1..Len(str) |-> IF str[i] = InvalidByte THEN ReplacementChar ELSE str[i]]

\* json.Marshal(reqBody): the JSON object of an openAIRequest; temperature is
\* omitempty and never set
Marshal(reqBody) ==
    [model |-> EncodeString(reqBody.Model),
     messages |-> [i \in 1..Len(reqBody.Messages) |->
                     [role |-> EncodeString(reqBody.Messages[i].Role),
                      content |-> EncodeString(reqBody.Messages[i].Content)]],
     stream |-> reqBody.Stream]

\* part_003:157-160  baseURL := p.cfg.BaseURL; if baseURL == "" { default }
BaseURLOrDefault_asConfigured(baseURL) == baseURL
BaseURLOrDefault(baseURL) == IF baseURL = <<>> THEN DefaultBaseURL ELSE baseURL

\* part_003:163-166  model := p.cfg.ModelName; if model == "" { "gpt-4" }
ModelOrDefault_asConfigured(model) == model
ModelOrDefault(model) == IF model = <<>> THEN DefaultModel ELSE model

\* part_003:169-182  reqBody
RequestBody_notStreaming(c, q) ==
    [Model |-> ModelOrDefault(c.ModelName),
     Messages |-> <<[Role |-> <<"system">>, Content |-> SystemPrompt],
                    [Role |-> <<"user">>, Content |-> q]>>,
     Stream |-> FALSE]
RequestBody(c, q) ==
    [Model |-> ModelOrDefault(c.ModelName),
     Messages |-> <<[Role |-> <<"system">>, Content |-> SystemPrompt],
                    [Role |-> <<"user">>, Content |-> q]>>,
     Stream |-> TRUE]

\* part_003:193-195  if !strings.HasSuffix(baseURL, "/") { baseURL += "/" }
AzureBase_asConfigured(baseURL) == baseURL
AzureBase(baseURL) == IF ~HasSuffix(baseURL, Slash) THEN baseURL \o Slash ELSE baseURL

\* part_003:201  strings.Contains(baseURL, "/chat/completions")
IsFullEndpoint_bySuffix(baseURL) == HasSuffix(baseURL, ChatCompletionsPath)
IsFullEndpoint(baseURL) == Contains(baseURL, ChatCompletionsPath)

\* part_003:205  baseURL = strings.TrimSuffix(baseURL, "/")
StandardBase_asConfigured(baseURL) == baseURL
StandardBase(baseURL) == TrimSuffix(baseURL, Slash)

\* part_003:189-208  the endpoint of the request
Endpoint_azureBeforeDefault(c) ==
    LET baseURL == BaseURLOrDefault(c.BaseURL) IN
    IF c.AzureDeploymentName # <<>>
    THEN AzureBase(c.BaseURL) \o AzurePath(c.AzureDeploymentName)
    ELSE IF IsFullEndpoint(baseURL)
         THEN baseURL
         ELSE StandardBase(baseURL) \o ChatCompletionsPath
Endpoint_fullEndpointFirst(c) ==
    LET baseURL == BaseURLOrDefault(c.BaseURL) IN
    IF IsFullEndpoint(baseURL)
    THEN baseURL
    ELSE IF c.AzureDeploymentName # <<>>
         THEN AzureBase(baseURL) \o AzurePath(c.AzureDeploymentName)
         ELSE StandardBase(baseURL) \o ChatCompletionsPath
Endpoint(c) ==
    LET baseURL == BaseURLOrDefault(c.BaseURL) IN
    IF c.AzureDeploymentName # <<>>
    THEN AzureBase(baseURL) \o AzurePath(c.AzureDeploymentName)
    ELSE IF IsFullEndpoint(baseURL)
         THEN baseURL
         ELSE StandardBase(baseURL) \o ChatCompletionsPath

\* part_003:219-224  the API key header, by AzureDeploymentName
SetAuth_bearerToo(h, c) ==
    IF c.AzureDeploymentName # <<>>
    THEN HeaderSet(HeaderSet(h, "api-key", c.APIKey),
                   "Authorization", <<"Bearer", " ">> \o c.APIKey)
    ELSE HeaderSet(h, "Authorization", <<"Bearer", " ">> \o c.APIKey)
SetAuth(h, c) ==
    IF c.AzureDeploymentName # <<>>
    THEN HeaderSet(h, "api-key", c.APIKey)
    ELSE HeaderSet(h, "Authorization", <<"Bearer", " ">> \o c.APIKey)

\* part_003:157-205  p.cfg after a call: baseURL and model are local
\* variables, the default and the slash handling are assigned to them and
\* p.cfg is only read
ConfigAfter_normalised(c) ==
    [c EXCEPT !.BaseURL = IF c.AzureDeploymentName # <<>>
                          THEN AzureBase(BaseURLOrDefault(c.BaseURL))
                          ELSE StandardBase(BaseURLOrDefault(c.BaseURL)),
              !.ModelName = ModelOrDefault(c.ModelName)]
ConfigAfter(c) == c

\* part_003:211-214  url.Parse inside http.NewRequestWithContext rejects an
\* endpoint with an invalid percent-escape
ParseFails(endpoint) == \E i \in 1..Len(endpoint) : endpoint[i] = BadEscape

\* part_003:211-224  the request AskStream hands to client.Do
NewRequest(c, q) ==
    [Method |-> "POST",
     URL |-> Endpoint(c),
     Header |-> SetAuth(HeaderSet({}, "Content-Type", <<"application/json">>), c),
     Body |-> Marshal(RequestBody(c, q))]
\* no request was created
NoRequest == [Method |-> "", URL |-> <<>>, Header |-> {}, Body |-> <<>>]

\* ------------------------------------------------------------------ errors
\* Go error values: kind names the fmt.Errorf site, cause the wrapped error.
Err(kind, code, text, cause) ==
    [kind |-> kind, status |-> code, text |-> text, cause |-> cause]
Nil == Err("nil", 0, <<>>, "none")
\* the error value the caller's callback returns when it fails
CallbackErr == Err("caller", 0, <<>>, "none")

\* --------------------------------------------------------- command line
\* the literal "\n\nContext:\n"
ContextHeader == <<NL, NL, "Context:", NL>>

RECURSIVE Join(_, _)
\* strings.Join
Join(elems, sep) ==
    IF elems = <<>> THEN <<>>
    ELSE IF Len(elems) = 1 THEN elems[1]
    ELSE elems[1] \o sep \o Join(Tail(elems), sep)

\* main.go:133-145  the question handleQuestion asks
QuestionStr_wordsOnly(words, stdinContent) == Join(words, <<" ">>)
QuestionStr(words, stdinContent) ==
    IF stdinContent # <<>>
    THEN IF Join(words, <<" ">>) = <<>>
         THEN stdinContent
         ELSE Join(words, <<" ">>) \o ContextHeader \o stdinContent
    ELSE Join(words, <<" ">>)

\* main.go:47  if CLI.Version
VersionRequested_unlessQuestion(c) == c.Version /\ c.Question = <<>>
VersionRequested(c) == c.Version

\* main.go:60  if len(CLI.Question) == 0 && stdinContent == ""
ShowUsage_noWords(words, stdinContent) == Len(words) = 0
ShowUsage(words, stdinContent) == Len(words) = 0 /\ stdinContent = <<>>

\* main.go:148  if CLI.NoStream: Ask, else AskStream
ProviderOp_alwaysStream(noStream) == "AskStream"
ProviderOp(noStream) == IF noStream THEN "Ask" ELSE "AskStream"

\* config.go:57-65  Config.Validate
Validate_needsBaseURL(c) ==
    IF c.APIKey = <<>> \/ c.BaseURL = <<>>
    THEN Err("validate", 0, <<>>, "none")
    ELSE Nil
Validate(c) ==
    IF c.APIKey = <<>> THEN Err("validate", 0, <<>>, "none") ELSE Nil

\* main.go:68  if err != nil, for the error loadConfigFunc returned
LoadFailed_missingOnly(e) == e # Nil /\ e.cause = "notExist"
LoadFailed(e) == e # Nil

\* config.go:40-55  LoadConfig: the file cannot be read, is not YAML, or
\* holds a configuration
LoadError(f) ==
    CASE f.kind = "missing" -> Err("read", 0, <<>>, "notExist")
      [] f.kind = "badYaml" -> Err("parse", 0, <<>>, "yaml")
      [] OTHER -> Nil

\* os.IsNotExist: true of an error of package os, not of one wrapped by
\* fmt.Errorf
IsNotExist(e) == e.kind = "notExist"

\* the parsed command line
Words == {<<>>, <<"a">>, <<"b", "c">>}
WordLists == UNION {[1..n -> Words] : n \in 0..MaxWords}
CLIs ==
    [Version : BOOLEAN, NoStream : BOOLEAN, Question : WordLists]
NoCLI == [Version |-> FALSE, NoStream |-> FALSE, Question |-> <<>>]

\* Standard input: a terminal, a descriptor Stat fails on, a pipe whose read
\* fails, or a pipe with data.
StdinStates ==
    {[kind |-> k, data |-> <<>>] : k \in {"tty", "statErr", "readErr"}}
        \cup {[kind |-> "pipe", data |-> d] : d \in {<<>>, <<"x", NL>>}}

\* the zero value of config.OpenAIConfig
ZeroConfig == OpenAIConfig(<<>>, <<>>, <<>>, <<>>)

\* The configuration file: missing, not YAML, or holding a configuration.
Files ==
    {[kind |-> k, config |-> ZeroConfig] : k \in {"missing", "badYaml"}}
        \cup {[kind |-> "ok", config |-> OpenAIConfig(b, k, m, a)] :
                 b \in {<<>>, DefaultBaseURL}, k \in {<<>>, <<"test-api-key">>},
                 m \in {<<>>, <<"gpt-4o">>}, a \in {<<>>, <<"my-deployment">>}}

\* what main writes to standard output
VersionLine == <<"si version 0.1.0", NL>>
UsageText == <<"Usage: si [<question> ...]", NL>>
ConfigNotFoundText == <<"Configuration file not found. Please create a configuration file at ~/.config/si.yaml", NL>>
ErrorLine(prefix, e) == <<prefix, e.kind, NL>>

VARIABLES
    cli,            \* the parsed command line (CLI)
    stdin,          \* what standard input is
    file,           \* what the configuration file is
    mpc,            \* position of main ("off": the provider is used directly)
    stdinContent,   \* main's stdinContent
    loaded,         \* main's cfg, as loadConfigFunc returned it
    did,            \* the operations main has performed so far
    herr,           \* the error handleQuestion returned
    exits,          \* the codes osExit was called with
    stdout,         \* what has been written to standard output
    calls,          \* the operations invoked on the provider, in order
    cfg,            \* p.cfg, the provider's configuration
    question,       \* the question the caller asks
    req,            \* the request built by the call (NoRequest: none)
    script,         \* kinds of the newline-terminated lines the transport serves
    tail,           \* kind of the unterminated last line ("none": there is none)
    status,         \* resp.StatusCode
    body,           \* the bytes of resp.Body
    failAt,         \* offset at which reading resp.Body fails, or NoFail
    mode,           \* the operation the caller invoked: "Ask" or "AskStream"
    cbFailAt,       \* the caller's callback fails at this invocation (0: never)
    pc,             \* position of the call
    cancelled,      \* ctx is cancelled
    requests,       \* HTTP requests handed to the transport
    gotResp,        \* p.client.Do returned a response
    bodyClosed,     \* resp.Body.Close() has run
    readAfterClose, \* resp.Body was read after Close
    rdPos,          \* bytes of body consumed from reader (bufio.Reader)
    fillPos,        \* bytes of body read from resp.Body into reader's buffer
    bufErr,         \* error reader holds back until its buffer is drained
    choices,        \* streamResp.Choices of the line being processed
    idx,            \* position of the range loop in choices
    delivered,      \* the arguments of the callback invocations, in order
    result,         \* Ask's strings.Builder
    err,            \* the error AskStream returned
    ret,            \* the string Ask returned
    prev            \* the outcomes of the earlier calls on this provider

envVars == <<cli, stdin, file>>
mainVars == <<envVars, mpc, stdinContent, loaded, did, herr, exits>>
cfgVars == <<cfg, question>>
respVars == <<script, tail, status, body, failAt>>
callVars == <<mode, cbFailAt, req, calls>>
httpVars == <<requests, gotResp>>
readerVars == <<rdPos, fillPos, bufErr>>
loopVars == <<choices, idx>>
outVars == <<delivered, result, stdout>>
retVars == <<bodyClosed, err, ret>>
vars == <<mainVars, cfgVars, respVars, callVars, pc, cancelled, httpVars, readAfterClose,
          readerVars, loopVars, outVars, retVars, prev>>

\* no call has been made on the provider
InitCall ==
    /\ calls = <<>>
    /\ stdout = <<>>
    /\ req = NoRequest
    /\ mode = "AskStream"
    /\ cbFailAt = 0
    /\ pc = "idle"
    /\ cancelled = FALSE
    /\ requests = 0
    /\ gotResp = FALSE
    /\ bodyClosed = FALSE
    /\ readAfterClose = FALSE
    /\ rdPos = 0
    /\ fillPos = 0
    /\ bufErr = "nil"
    /\ choices = <<>>
    /\ idx = 1
    /\ delivered = <<>>
    /\ result = <<>>
    /\ err = Nil
    /\ ret = <<>>
    /\ prev = <<>>

\* the provider is used directly, as in llm_test.go: there is no main
NoMain ==
    /\ cli = NoCLI
    /\ stdin = [kind |-> "tty", data |-> <<>>]
    /\ file = [kind |-> "missing", config |-> ZeroConfig]
    /\ mpc = "off"
    /\ stdinContent = <<>>
    /\ loaded = ZeroConfig
    /\ did = {}
    /\ herr = Nil
    /\ exits = <<>>

Init ==
    /\ NoMain
    /\ cfg = TestConfig
    /\ question = TestQuestion
    /\ script \in Scripts
    /\ tail \in TailKinds
    /\ status \in Statuses
    /\ body = RenderBody(script, tail)
    /\ failAt \in {NoFail} \cup FailPoints(body)
    /\ InitCall


\* ------------------------------------------------------------- transport
\* the bytes resp.Body yields before it reports end-of-stream or fails
AvailEnd == IF failAt = NoFail THEN Len(body) ELSE failAt
\* what resp.Body reports once those bytes are read
EndErr == IF failAt = NoFail THEN "EOF" ELSE "readFail"

\* the offsets of the newlines of body in (from, to]
Newlines(from, to) == {p \in (from + 1)..to : body[p] = NL}
Min(S) == CHOOSE x \in S : \A y \in S : x <= y

\* ------------------------------------------------- decisions of the code
\* part_003:234  if resp.StatusCode != http.StatusOK
StatusIsError_non2xx(code) == code < 200 \/ code > 299
StatusIsError(code) == code # StatusOK

\* part_003:254  if line == "" || line == "data: [DONE]" { continue }
SkipLine_blankOnly(line) == line = <<>>
SkipLine(line) == line = <<>> \/ line = DoneLine

\* part_003:259  strings.HasPrefix(line, "data: "), else continue
IsDataLine_dataColon(line) == HasPrefix(line, <<"d", "a", "t", "a", ":">>)
IsDataLine(line) == HasPrefix(line, DataPrefix)

\* part_003:267-269  if err := json.Unmarshal(...); err != nil { return ... }
DecodeFails_never(streamResp) == FALSE
DecodeFails_strict(streamResp) ==
    \/ ~streamResp.ok
    \/ \A i \in 1..Len(streamResp.Choices) : streamResp.Choices[i].Content = <<>>
DecodeFails(streamResp) == ~streamResp.ok

\* part_003:273  if choice.Delta.Content != ""
HasContent_always(choice) == TRUE
HasContent(choice) == choice.Content # <<>>

\* part_003:275  return err: the callback's error, as it is
CallbackFailure_wrapped(e) == Err("callback", 0, <<>>, e.kind)
CallbackFailure(e) == e

\* part_003:231  defer resp.Body.Close(): runs at every return after Do succeeded
ClosedAtReturn_onSuccess(got, e) == got /\ e = Nil
ClosedAtReturn(got, e) == got

\* part_003:147-151  Ask returns "" with the error, the builder's text without
AskReturn_partial(builder, e) == builder
AskReturn(builder, e) == IF e # Nil THEN <<>> ELSE builder

\* part_003:143  result.WriteString(chunk)
WriteString_spaced(builder, chunk) ==
    IF builder = <<>> THEN chunk ELSE builder \o <<" ">> \o chunk
WriteString(builder, chunk) == builder \o chunk

\* part_003:235-236  the error of a status other than 200: the status code and
\* the bytes io.ReadAll got from resp.Body
StatusError_noBody(code, read) == Err("status", code, <<>>, "none")
StatusError(code, read) == Err("status", code, read, "none")

\* return e from AskStream: the deferred Close runs, Ask hands on the result
Return(e, res, got) ==
    /\ pc' = "done"
    /\ bodyClosed' = ClosedAtReturn(got, e)
    /\ err' = e
    /\ ret' = IF mode = "Ask" THEN AskReturn(res, e) ELSE <<>>

\* --------------------------------------------------------------- actions
\* The caller invokes Ask, or AskStream with a callback that fails at its
\* k-th invocation (k = 0: never).  Ask's own callback never fails.
\* part_003:156-224  AskStream builds the request; when NewRequestWithContext
\* fails it returns before anything is sent.
StartCall(m, k) ==
    /\ pc = "idle"
    /\ m = "Ask" => k = 0
    /\ mode' = m
    /\ cbFailAt' = k
    /\ calls' = Append(calls, m)
    /\ IF ParseFails(Endpoint(cfg))
       THEN /\ req' = NoRequest
            /\ Return(Err("create", 0, <<>>, "url"), <<>>, FALSE)
       ELSE /\ req' = NewRequest(cfg, question)
            /\ pc' = "send"
            /\ UNCHANGED retVars
    /\ cfg' = ConfigAfter(cfg)
    /\ UNCHANGED <<mainVars, question, respVars, cancelled, httpVars, readAfterClose,
                   readerVars, loopVars, outVars, prev>>

\* The caller cancels ctx while the call is running.
Cancel ==
    /\ pc \in {"send", "status", "read", "choices"}
    /\ ~cancelled
    /\ cancelled' = TRUE
    /\ UNCHANGED <<mainVars, cfgVars, respVars, callVars, pc, httpVars, readAfterClose, readerVars,
                   loopVars, outVars, retVars, prev>>

\* part_003:228-230  if err != nil { return fmt.Errorf("failed to send ...") }
SendFailed_retried(cause) == pc' = "send" /\ UNCHANGED retVars
SendFailed_swallowed(cause) == Return(Nil, result, FALSE)
SendFailed(cause) == Return(Err("send", 0, <<>>, cause), result, FALSE)

\* part_003:226-231  resp, err := p.client.Do(req)
SendRequest ==
    /\ pc = "send"
    /\ \/ /\ cancelled
          /\ gotResp' = FALSE
          /\ requests' = requests
          /\ SendFailed("ctxCanceled")
       \/ /\ ~cancelled
          /\ requests' = requests + 1
          /\ \/ /\ gotResp' = TRUE
                /\ pc' = "status"
                /\ UNCHANGED retVars
             \/ /\ gotResp' = FALSE
                /\ SendFailed("transport")
    /\ UNCHANGED <<mainVars, cfgVars, respVars, callVars, cancelled, readAfterClose, readerVars,
                   loopVars, outVars, prev>>

\* part_003:233-240  status check; io.ReadAll(resp.Body) drops the read error
CheckStatus ==
    /\ pc = "status"
    /\ IF StatusIsError(status)
       THEN /\ readAfterClose' = (readAfterClose \/ bodyClosed)
            /\ LET read == IF cancelled THEN <<>> ELSE SubSeq(body, 1, AvailEnd)
               IN  Return(StatusError(status, read), result, gotResp)
       ELSE /\ pc' = "read"
            /\ UNCHANGED <<readAfterClose, retVars>>
    /\ UNCHANGED <<mainVars, cfgVars, respVars, callVars, cancelled, httpVars, readerVars,
                   loopVars, outVars, prev>>


\* part_003:245-250  ReadString failed: io.EOF breaks the loop and AskStream
\* returns nil, any other error is wrapped and returned.  The bytes returned
\* together with the error (a last line without newline) are dropped.
ReadFailed_eofContinues(e) ==
    IF e = "EOF"
    THEN pc' = "read" /\ UNCHANGED retVars
    ELSE Return(Err("read", 0, <<>>, e), result, gotResp)
ReadFailed_anyErrorBreaks(e) == Return(Nil, result, gotResp)
ReadFailed_lastLineDecoded(e) ==
    IF e = "EOF"
    THEN \E line \in {TrimSpace(SubSeq(body, rdPos + 1, Len(body)))} :
         IF IsDataLine(line) /\ DecodeFails(Unmarshal(TrimPrefix(line, DataPrefix)))
         THEN Return(Err("parse", 0, <<>>, "json"), result, gotResp)
         ELSE Return(Nil, result, gotResp)
    ELSE Return(Err("read", 0, <<>>, e), result, gotResp)
ReadFailed_eofIsError(e) == Return(Err("read", 0, <<>>, e), result, gotResp)
ReadFailed(e) ==
    IF e = "EOF"
    THEN Return(Nil, result, gotResp)
    ELSE Return(Err("read", 0, <<>>, e), result, gotResp)

\* part_003:252-269  ReadString returned the line that ends at offset p
GotLine(p) ==
    \E line \in {TrimSpace(SubSeq(body, rdPos + 1, p))} :
    /\ rdPos' = p
    /\ IF SkipLine(line) \/ ~IsDataLine(line)
       THEN /\ pc' = "read"
            /\ UNCHANGED <<loopVars, retVars>>
       ELSE \E streamResp \in {Unmarshal(TrimPrefix(line, DataPrefix))} :
            IF DecodeFails(streamResp)
            THEN /\ Return(Err("parse", 0, <<>>, "json"), result, gotResp)
                 /\ UNCHANGED loopVars
            ELSE /\ choices' = streamResp.Choices
                 /\ idx' = 1
                 /\ pc' = IF streamResp.Choices = <<>> THEN "read" ELSE "choices"
                 /\ UNCHANGED retVars

\* What one Read of resp.Body may leave in reader's buffer when the next
\* newline is at offset p: the bytes up to the end of any later line, or all
\* the bytes the body yields (and then, maybe, the error that ends it).
FillTargets(p) == Newlines(p - 1, AvailEnd) \cup {AvailEnd}

\* part_003:242-269  one iteration of the for loop up to the parsed chunk:
\* line, err := reader.ReadString('\n') and the handling of the line
ReadLine ==
    /\ pc = "read"
    /\ LET buffered == Newlines(rdPos, fillPos) IN
       IF buffered # {}
       THEN \* a whole line is in the buffer: resp.Body is not touched
            /\ GotLine(Min(buffered))
            /\ UNCHANGED <<fillPos, bufErr, readAfterClose>>
       ELSE IF bufErr # "nil"
       THEN \* the buffer is drained: the error held back comes out
            /\ rdPos' = fillPos
            /\ bufErr' = "nil"
            /\ ReadFailed(bufErr)
            /\ UNCHANGED <<fillPos, readAfterClose, loopVars>>
       ELSE \* reader fills its buffer from resp.Body
            /\ readAfterClose' = (readAfterClose \/ bodyClosed)
            /\ IF cancelled
               THEN /\ rdPos' = fillPos
                    /\ ReadFailed("ctxCanceled")
                    /\ UNCHANGED <<fillPos, bufErr, loopVars>>
               ELSE LET ahead == Newlines(fillPos, AvailEnd) IN
                    IF ahead # {}
                    THEN \E f \in FillTargets(Min(ahead)) :
                         \E e \in (IF f = AvailEnd THEN {"nil", EndErr} ELSE {"nil"}) :
                            /\ fillPos' = f
                            /\ bufErr' = e
                            /\ GotLine(Min(ahead))
                    ELSE /\ fillPos' = AvailEnd
                         /\ rdPos' = AvailEnd
                         /\ bufErr' = "nil"
                         /\ ReadFailed(EndErr)
                         /\ UNCHANGED loopVars
    /\ UNCHANGED <<mainVars, cfgVars, respVars, callVars, cancelled, httpVars, outVars, prev>>

\* main.go:164-169  the callback main passes to AskStream writes the chunk
\* to standard output and returns nil
Callback(out, chunk) == IF mpc = "call" THEN out \o chunk ELSE out

\* part_003:272  for _, choice := range streamResp.Choices
ChoiceAt_reversed(cs, i) == cs[Len(cs) + 1 - i]
ChoiceAt(cs, i) == cs[i]

\* part_003:271-278  one iteration of the range loop over streamResp.Choices
Emit ==
    /\ pc = "choices"
    /\ LET choice == ChoiceAt(choices, idx)
           advance == IF idx = Len(choices)
                      THEN /\ pc' = "read"
                           /\ idx' = 1
                           /\ choices' = <<>>
                      ELSE /\ pc' = "choices"
                           /\ idx' = idx + 1
                           /\ choices' = choices
       IN
       IF HasContent(choice)
       THEN /\ delivered' = Append(delivered, choice.Content)
            /\ result' = IF mode = "Ask"
                         THEN WriteString(result, choice.Content)
                         ELSE result
            /\ stdout' = IF mode = "AskStream"
                         THEN Callback(stdout, choice.Content)
                         ELSE stdout
            /\ IF mode = "AskStream" /\ Len(delivered) + 1 = cbFailAt
               THEN /\ Return(CallbackFailure(CallbackErr), result', gotResp)
                    /\ UNCHANGED loopVars
               ELSE /\ advance
                    /\ UNCHANGED retVars
       ELSE /\ advance
            /\ UNCHANGED <<outVars, retVars>>
    /\ UNCHANGED <<mainVars, cfgVars, respVars, callVars, cancelled, httpVars, readAfterClose,
                   readerVars, prev>>

\* part_003:63-69  the caller invokes the provider a second time after the
\* first call returned: a new ctx, a new request, and the transport serves the
\* same response again
NextCall ==
    /\ pc = "done"
    /\ prev = <<>>
    /\ prev' = Append(prev, [mode |-> mode, cbFailAt |-> cbFailAt, req |-> req,
                             cfg |-> cfg, gotResp |-> gotResp,
                             delivered |-> delivered, err |-> err, ret |-> ret])
    /\ pc' = "idle"
    /\ cancelled' = FALSE
    /\ requests' = 0
    /\ gotResp' = FALSE
    /\ bodyClosed' = FALSE
    /\ rdPos' = 0
    /\ fillPos' = 0
    /\ bufErr' = "nil"
    /\ choices' = <<>>
    /\ idx' = 1
    /\ delivered' = <<>>
    /\ result' = <<>>
    /\ err' = Nil
    /\ ret' = <<>>
    /\ UNCHANGED <<mainVars, cfgVars, respVars, callVars, readAfterClose, stdout>>

Modes == {"Ask", "AskStream"}

Next ==
    \/ \E m \in Modes, k \in 0..MaxCbFail : StartCall(m, k)
    \/ Cancel
    \/ SendRequest
    \/ CheckStatus
    \/ ReadLine
    \/ Emit

Spec == Init /\ [][Next]_vars

\* Sequential calls on one provider against a deterministic transport, with a
\* callback that never fails and a context that is never cancelled.
NextPair ==
    \/ \E m \in Modes : StartCall(m, 0)
    \/ SendRequest
    \/ CheckStatus
    \/ ReadLine
    \/ Emit
    \/ NextCall

SpecPair == Init /\ [][NextPair]_vars

\* llm_test.go:43-63  the mock server is set up, once, with the response it
\* serves
Arrange ==
    /\ pc = "idle"
    /\ script = <<>> /\ tail = "none" /\ status = StatusOK /\ failAt = NoFail
    /\ script' \in Scripts
    /\ tail' \in TailKinds
    /\ status' \in Statuses
    /\ body' = RenderBody(script', tail')
    /\ failAt' \in {NoFail} \cup FailPoints(body')
    /\ UNCHANGED <<mainVars, cfgVars, callVars, pc, cancelled, httpVars, readAfterClose,
                   readerVars, loopVars, outVars, retVars, prev>>

\* one provider, whose mock server has not been given its response yet
InitLive ==
    /\ Init
    /\ script = <<>>
    /\ tail = "none"
    /\ status = StatusOK
    /\ failAt = NoFail

NextLive == Arrange \/ Next

\* A call that has started keeps running: the goroutine is scheduled, the
\* transport answers every Do and every Read (with data, end-of-stream or an
\* error), and the callback returns.
SpecLive ==
    /\ InitLive
    /\ [][NextLive]_vars
    /\ WF_vars(SendRequest)
    /\ WF_vars(CheckStatus)
    /\ WF_vars(ReadLine)
    /\ WF_vars(Emit)

\* Calls on providers of every configuration, against a transport that
\* serves one chunk and the [DONE] line.
InitReq ==
    /\ NoMain
    /\ cfg \in Configs
    /\ question \in Questions
    /\ script = <<"chunkA", "done">>
    /\ tail = "none"
    /\ status \in {StatusOK, 500}
    /\ body = RenderBody(script, tail)
    /\ failAt = NoFail
    /\ InitCall

SpecReq == InitReq /\ [][Next]_vars

\* Calls against a transport that serves status 200 and fails while the
\* body is read, after any number of its bytes.
InitReadFail ==
    /\ NoMain
    /\ cfg = TestConfig
    /\ question = TestQuestion
    /\ script \in Scripts
    /\ tail \in TailKinds
    /\ status = StatusOK
    /\ body = RenderBody(script, tail)
    /\ failAt \in 0..Len(body)
    /\ InitCall

SpecReadFail == InitReadFail /\ [][Next]_vars

NextReqPair ==
    \/ \E m \in Modes, k \in 0..MaxCbFail : StartCall(m, k)
    \/ Cancel
    \/ SendRequest
    \/ CheckStatus
    \/ ReadLine
    \/ Emit
    \/ NextCall

\* Two calls, one after the other, on a provider of any configuration.
SpecReqPair == InitReq /\ [][NextReqPair]_vars

\* Calls against a transport that serves status 200 and a body with lines
\* that are not data lines.
InitNonData ==
    /\ NoMain
    /\ cfg = TestConfig
    /\ question = TestQuestion
    /\ script \in NonDataScripts
    /\ tail = "none"
    /\ status = StatusOK
    /\ body = RenderBody(script, tail)
    /\ failAt = NoFail
    /\ InitCall

SpecNonData == InitNonData /\ [][Next]_vars

\* Between two calls the server is set up again to serve the same lines
\* written differently: some of them ended by "\r\n", some of them with
\* spaces and tabs around them.
Restyle ==
    /\ pc = "idle"
    /\ prev # <<>>
    /\ body = RenderBody(script, tail)
    /\ \E styles \in [1..Len(script) -> LineStyles] :
          /\ body' = RenderStyled(script, styles, tail)
          /\ body' # body
    /\ UNCHANGED <<script, tail, status, failAt>>
    /\ UNCHANGED <<mainVars, cfgVars, callVars, pc, cancelled, httpVars, readAfterClose,
                   readerVars, loopVars, outVars, retVars, prev>>

\* a status-200 response that the transport serves to its end
InitStyle ==
    /\ Init
    /\ status = StatusOK
    /\ failAt = NoFail

NextStyle ==
    \/ \E m \in Modes, k \in 0..MaxCbFail : StartCall(m, k)
    \/ SendRequest
    \/ CheckStatus
    \/ ReadLine
    \/ Emit
    \/ NextCall
    \/ Restyle

\* Two calls on one provider, the second one against a body whose lines are
\* written differently.
SpecStyle == InitStyle /\ [][NextStyle]_vars

\* ------------------------------------------------------------------ main
\* everything of the provider and its call that main's own steps leave alone
providerVars == <<respVars, callVars, pc, cancelled, httpVars, readAfterClose,
                  readerVars, loopVars, delivered, result, retVars, prev>>

\* osExit(code): os.Exit ends the process
Exit(code) ==
    /\ mpc' = "exited"
    /\ exits' = Append(exits, code)

\* main.go:46-50  the version flag
CheckVersion ==
    /\ mpc = "start"
    /\ IF VersionRequested(cli)
       THEN /\ stdout' = stdout \o VersionLine
            /\ mpc' = "returned"
       ELSE /\ mpc' = "stdin"
            /\ UNCHANGED stdout
    /\ UNCHANGED <<envVars, stdinContent, loaded, did, herr, exits, cfgVars,
                   providerVars>>

\* main.go:52-63, 107-124  checkStdin, and the usage text when there is
\* neither a question nor stdin content
CheckStdin ==
    /\ mpc = "stdin"
    /\ did' = did \cup (IF stdin.kind \in {"pipe", "readErr"}
                        THEN {"stat", "read"} ELSE {"stat"})
    /\ IF stdin.kind \in {"statErr", "readErr"}
       THEN /\ stdout' = stdout \o <<"Error reading from stdin: ", stdin.kind, NL>>
            /\ Exit(1)
            /\ UNCHANGED stdinContent
       ELSE /\ stdinContent' = stdin.data
            /\ UNCHANGED exits
            /\ IF ShowUsage(cli.Question, stdin.data)
               THEN /\ stdout' = stdout \o UsageText
                    /\ mpc' = "returned"
               ELSE /\ mpc' = "config"
                    /\ UNCHANGED stdout
    /\ UNCHANGED <<envVars, loaded, herr, cfgVars, providerVars>>

\* main.go:65-91  cfg, err := loadConfigFunc(configPath)
LoadConfig ==
    /\ mpc = "config"
    /\ did' = did \cup {"load"}
    /\ IF LoadFailed(LoadError(file))
       THEN /\ stdout' = stdout \o
                  (IF IsNotExist(LoadError(file)) THEN ConfigNotFoundText ELSE <<>>)
                  \o ErrorLine("Error loading configuration: ", LoadError(file))
            /\ Exit(1)
            /\ UNCHANGED loaded
       ELSE /\ loaded' = file.config
            /\ mpc' = "validate"
            /\ UNCHANGED <<stdout, exits>>
    /\ UNCHANGED <<envVars, stdinContent, herr, cfgVars, providerVars>>

\* main.go:93-97  cfg.Validate()
ValidateConfig ==
    /\ mpc = "validate"
    /\ did' = did \cup {"validate"}
    /\ IF Validate(loaded) # Nil
       THEN /\ stdout' = stdout \o ErrorLine("Invalid configuration: ", Validate(loaded))
            /\ Exit(1)
       ELSE /\ mpc' = "ask"
            /\ UNCHANGED <<stdout, exits>>
    /\ UNCHANGED <<envVars, stdinContent, loaded, herr, cfgVars, providerVars>>

\* main.go:126-145  handleQuestion creates the provider and builds the
\* question
HandleQuestion ==
    /\ mpc = "ask"
    /\ did' = did \cup {"newProvider"}
    /\ cfg' = loaded
    /\ question' = QuestionStr(cli.Question, stdinContent)
    /\ mpc' = "call"
    /\ UNCHANGED <<envVars, stdinContent, loaded, herr, exits, stdout, providerVars>>

\* main.go:148-169  provider.Ask or provider.AskStream, with a callback that
\* returns nil
AskProvider ==
    /\ mpc = "call"
    /\ StartCall(ProviderOp(cli.NoStream), 0)

\* main.go:151-181, 100-103  the provider returned: handleQuestion writes the
\* answer (or the newline that ends the streamed one) and returns; main
\* reports an error and exits
FinishQuestion ==
    /\ mpc = "call"
    /\ pc = "done"
    /\ IF err # Nil
       THEN /\ herr' = Err("ask", err.status, err.text, err.kind)
            /\ stdout' = stdout \o ErrorLine("Error: ", err)
            /\ Exit(1)
       ELSE /\ herr' = Nil
            /\ stdout' = IF cli.NoStream THEN stdout \o ret \o <<NL>>
                                        ELSE stdout \o <<NL>>
            /\ mpc' = "returned"
            /\ UNCHANGED exits
    /\ UNCHANGED <<envVars, stdinContent, loaded, did, cfgVars, providerVars>>

\* what the API answers to main's request
MainScripts == {<<"chunkA", "chunkB">>, <<"chunkA", "bad">>}

\* main starts with a parsed command line; no provider exists yet
InitMain ==
    /\ cli \in CLIs
    /\ stdin \in StdinStates
    /\ file \in Files
    /\ mpc = "start"
    /\ stdinContent = <<>>
    /\ loaded = ZeroConfig
    /\ did = {}
    /\ herr = Nil
    /\ exits = <<>>
    /\ cfg = ZeroConfig
    /\ question = <<>>
    /\ script \in MainScripts
    /\ tail = "none"
    /\ status \in {StatusOK, 500}
    /\ body = RenderBody(script, tail)
    /\ failAt = NoFail
    /\ InitCall

NextMain ==
    \/ CheckVersion
    \/ CheckStdin
    \/ LoadConfig
    \/ ValidateConfig
    \/ HandleQuestion
    \/ AskProvider
    \/ SendRequest
    \/ CheckStatus
    \/ ReadLine
    \/ Emit
    \/ FinishQuestion

SpecMain == InitMain /\ [][NextMain]_vars

\* main is one goroutine that keeps running until it returns or exits
SpecMainLive == SpecMain /\ WF_vars(NextMain)

TypeOK ==
    /\ cli \in CLIs
    /\ stdin \in StdinStates
    /\ file \in Files
    /\ mpc \in {"off", "start", "stdin", "config", "validate", "ask", "call",
                "returned", "exited"}
    /\ Len(exits) <= 1
    /\ Len(calls) <= 2
    /\ cfg \in Configs
    /\ question \in Seq(STRING)
    /\ req = NoRequest \/ req.Method = "POST"
    /\ pc \in {"idle", "send", "status", "read", "choices", "done"}
    /\ rdPos \in 0..Len(body)
    /\ fillPos \in rdPos..Len(body)
    /\ bufErr \in {"nil", "EOF", "readFail"}


\* ===================================================== what the claims say
\* The content deltas a served line of each kind carries, in the order of
\* its choices array (read off the wire format, not off the decoder).
KindFragments(kind) ==
    CASE kind = "chunkA" -> << <<"a">> >>
      [] kind = "chunkB" -> << <<"b", "c">> >>
      [] kind = "multi" -> << <<"x">>, <<"y">> >>
      [] OTHER -> <<>>

RECURSIVE ScriptFragments(_)
ScriptFragments(kinds) ==
    IF kinds = <<>> THEN <<>>
    ELSE KindFragments(Head(kinds)) \o ScriptFragments(Tail(kinds))

\* the number of whole lines ReadString has returned so far
LinesRead == Cardinality(Newlines(0, rdPos))

\* the served lines of kind k among the first n
Among(k, n) == {i \in 1..n : i <= Len(script) /\ script[i] = k}

\* the call has returned after the transport answered, and nothing but the
\* response decided its outcome: the body was served whole, ctx was never
\* cancelled and the callback never failed
Undisturbed ==
    /\ pc = "done"
    /\ gotResp
    /\ failAt = NoFail
    /\ ~cancelled
    /\ cbFailAt = 0

\* a body made of data chunks that carry one non-empty content delta each
\* (with the blank lines that separate SSE events), the last chunk line
\* with or without its newline
OneDeltaChunks ==
    /\ status = StatusOK
    /\ \A i \in 1..Len(script) : script[i] \in {"chunkA", "chunkB", "blank"}
    /\ tail \in {"none", "chunkA"}

\* C1: for every status-200 body of N chunks with one non-empty content delta
\* each, the callback is invoked exactly N times, in chunk order, with each
\* chunk's delta, and AskStream returns no error, also when the last chunk
\* line is not followed by a newline.
C1_EveryChunkDelivered ==
    (Undisturbed /\ OneDeltaChunks) =>
        /\ err = Nil
        /\ delivered = ScriptFragments(script \o <<tail>>)

FirstBad == Min(Among("bad", Len(script)) \cup {Len(script) + 1})

C4_DecodeErrorAborts ==
    Among("bad", LinesRead) # {} =>
        /\ pc = "done"
        /\ err = Err("parse", 0, <<>>, "json")
        /\ LinesRead = FirstBad
        /\ delivered = ScriptFragments(SubSeq(script, 1, FirstBad - 1))

C4_Witness ==
    /\ pc = "done"
    /\ err.kind = "parse"
    /\ script = <<"chunkA", "bad">>
    /\ delivered = << <<"a">> >>

\* the least n such that the first n served lines carry at least k fragments
RECURSIVE LineOfFragment(_, _)
LineOfFragment(k, n) ==
    IF n >= Len(script) \/ Len(ScriptFragments(SubSeq(script, 1, n))) >= k
    THEN n
    ELSE LineOfFragment(k, n + 1)

\* C5: when the callback fails at its k-th invocation AskStream has returned
\* that very error value, the callback was invoked k times and no more
\* (neither for a later choice of the chunk nor for a later line), and no
\* line after that chunk's line was read.
C5_CallbackErrorStops ==
    (mode = "AskStream" /\ cbFailAt > 0 /\ Len(delivered) >= cbFailAt) =>
        /\ pc = "done"
        /\ err = CallbackErr
        /\ Len(delivered) = cbFailAt
        /\ LinesRead = LineOfFragment(cbFailAt, 0)

C5_Witness ==
    /\ pc = "done"
    /\ err = CallbackErr
    /\ script = <<"multi", "chunkA">>
    /\ delivered = << <<"x">> >>
    /\ fillPos = Len(body)


\* C2: against a deterministic transport, whenever Ask succeeds its string is
\* the fragments AskStream passes to its callback for the same response,
\* written one after the other with nothing between them; both calls see the
\* same fragments in the same order (checked on sequential calls, in either
\* order, under SpecPair).
C2_AskIsConcatOfStream ==
    \A i \in 1..Len(prev) :
        /\ (pc = "done" /\ mode = "Ask" /\ err = Nil
              /\ prev[i].mode = "AskStream" /\ prev[i].gotResp) =>
                /\ ret = Concat(prev[i].delivered)
                /\ delivered = prev[i].delivered
        /\ (pc = "done" /\ mode = "AskStream" /\ gotResp
              /\ prev[i].mode = "Ask" /\ prev[i].err = Nil) =>
                /\ prev[i].ret = Concat(delivered)
                /\ prev[i].delivered = delivered

C2_Witness ==
    /\ pc = "done"
    /\ mode = "Ask"
    /\ err = Nil
    /\ Len(prev) = 1
    /\ prev[1].mode = "AskStream"
    /\ prev[1].delivered = << <<"a">>, <<"b", "c">> >>
    /\ ret = <<"a", "b", "c">>

Non2xx(code) == code < 200 \/ code > 299
IsPrefixOf(s, t) == Len(s) <= Len(t) /\ SubSeq(t, 1, Len(s)) = s

C7_ErrorIffNon2xx ==
    (pc = "done" /\ gotResp) => (err.kind = "status" <=> Non2xx(status))

\* C7 (amended): the call ends in the status error exactly when the status is
\* not 200: only status 200 goes on to SSE decoding and has its fragments
\* reach the callback; every other status, 2xx or not, is returned as the
\* status error with no callback invocation.
C7_ErrorIffNot200 ==
    (pc = "done" /\ gotResp) =>
        /\ err.kind = "status" <=> status # 200
        /\ status # 200 => (err.status = status /\ delivered = <<>>)
        /\ (status = 200 /\ Undisturbed) =>
              delivered = ScriptFragments(SubSeq(script, 1, FirstBad - 1))

C7_Witness ==
    /\ pc = "done"
    /\ status = 204
    /\ script = <<"chunkA">>
    /\ err.kind = "status"
    /\ delivered = <<>>

\* C8: once ctx is cancelled while a status-200 stream is being decoded, no
\* further line is read (and so no callback is invoked for one) and the call
\* returns an error that reports the cancellation.  The chunk whose line was
\* read before the cancellation is left aside: the formula binds the call
\* only from the next ReadString on.
C8_CancelStopsDecoding ==
    [][(cancelled /\ status = StatusOK /\ cbFailAt = 0 /\ pc = "read") =>
            /\ LinesRead' = LinesRead
            /\ delivered' = delivered
            /\ (pc' = "done" => err'.cause = "ctxCanceled")]_vars

\* C9: when client.Do returned a response, resp.Body is closed once the call
\* has returned, whatever the exit (end of stream, status error, read error,
\* decode error, callback error, cancellation), it is not closed before the
\* return, and it is never read after Close.
C9_BodyClosedOnEveryExit ==
    /\ (pc = "done" /\ gotResp) => bodyClosed
    /\ bodyClosed => pc = "done"
    /\ ~readAfterClose

C9_Witness ==
    /\ pc = "done"
    /\ gotResp
    /\ err.kind = "read"
    /\ err.cause = "ctxCanceled"
    /\ delivered # <<>>
    /\ bodyClosed

\* C10: the callback is never invoked with the empty string.
C10_NoEmptyDelta ==
    \A i \in 1..Len(delivered) : delivered[i] # <<>>

C10_Witness ==
    /\ pc = "done"
    /\ err = Nil
    /\ script = <<"multi", "role">>
    /\ delivered = << <<"x">>, <<"y">> >>


\* the kinds of well-formed data chunk in which no choice has content
NoContentKinds == {"role", "nochoices"}

\* C11: a well-formed data chunk in which no choice has a non-empty content
\* (a role-only delta, an empty choices list) brings no callback invocation
\* and no error: when its line has been worked off the loop is back at its
\* top with the fragments of the earlier lines only, and the chunks that
\* follow it are delivered as if it were not there.
C11_NoContentChunkIsSilent ==
    /\ (pc = "read" /\ LinesRead >= 1 /\ LinesRead <= Len(script)
          /\ script[LinesRead] \in NoContentKinds) =>
            /\ err = Nil
            /\ delivered = ScriptFragments(SubSeq(script, 1, LinesRead - 1))
    /\ (Undisturbed /\ status = StatusOK /\ FirstBad > Len(script)
          /\ \E i \in 1..Len(script) : script[i] \in NoContentKinds) =>
            /\ err = Nil
            /\ delivered = ScriptFragments(script)

C11_Witness ==
    /\ Undisturbed
    /\ status = StatusOK
    /\ Len(script) = 2
    /\ script[1] = "nochoices"
    /\ script[2] = "chunkA"
    /\ err = Nil
    /\ delivered = << <<"a">> >>

\* C12: a status-200 body that ends without a `data: [DONE]` line is ended by
\* end-of-stream: AskStream returns no error and has delivered the fragments
\* of every newline-terminated line.
C12_EndOfStreamIsNormal ==
    (Undisturbed /\ status = StatusOK /\ Among("done", Len(script)) = {}
       /\ FirstBad > Len(script)) =>
        /\ err = Nil
        /\ LinesRead = Len(script)
        /\ delivered = ScriptFragments(script)

C12_Witness ==
    /\ Undisturbed
    /\ status = StatusOK
    /\ script = <<"chunkA", "chunkB">>
    /\ tail = "none"
    /\ err = Nil
    /\ delivered = << <<"a">>, <<"b", "c">> >>


\* C13: for a finite body and a callback that returns, a call that has
\* started eventually returns; every iteration of the read loop that does
\* not return consumes one more line of the body; and a call that decoded a
\* status-200 body has ended at the end of the stream or with an error.
C13_EventuallyReturns ==
    /\ (pc = "send") ~> (pc = "done")
    /\ [][(pc = "read" /\ cancelled' = cancelled /\ pc' # "done") =>
             LinesRead' = LinesRead + 1]_vars
    /\ [](pc = "done" /\ gotResp /\ status = StatusOK =>
             err # Nil \/ rdPos = Len(body))

C13_Witness ==
    /\ pc = "done"
    /\ status = StatusOK
    /\ Len(script) = 2
    /\ LinesRead = 2
    /\ rdPos = Len(body)
    /\ err = Nil


\* C14: a call hands at most one request to the HTTP client, a POST, whatever
\* way the call ends: no failure makes it send again.
C14_AtMostOneRequest ==
    /\ requests <= 1
    /\ requests = 1 => req # NoRequest /\ req.Method = "POST"
    /\ pc \in {"status", "read", "choices"} => requests = 1

C14_Witness ==
    /\ pc = "done"
    /\ requests = 1
    /\ req.Method = "POST"
    /\ err.kind = "parse"


\* C15: a call that ended without a response (the transport failed, or ctx
\* was cancelled before the request went out) returned an error and never
\* invoked the callback.
C15_NoResponseIsError ==
    pc = "done" /\ ~gotResp => err # Nil /\ delivered = <<>> /\ ret = <<>>

C15_Witness ==
    /\ pc = "done"
    /\ requests = 1
    /\ ~gotResp
    /\ err.kind = "send"
    /\ err.cause = "transport"
    /\ delivered = <<>>


\* the base URL the endpoint rules start from: the configured one, or the
\* default when none is configured
BaseURLInEffect ==
    IF cfg.BaseURL = <<>>
    THEN <<"https:", "/", "/", "api.openai.com", "/", "v1">>
    ELSE cfg.BaseURL

RECURSIVE StripSlashes(_)
\* url without its trailing slashes
StripSlashes(url) ==
    IF url # <<>> /\ url[Len(url)] = "/"
    THEN StripSlashes(SubSeq(url, 1, Len(url) - 1))
    ELSE url
\* the number of trailing slashes of url
TrailingSlashes(url) == Len(url) - Len(StripSlashes(url))

\* the Azure endpoint below a base URL that ends with exactly one slash
AzureEndpoint(base, name) ==
    base \o <<"openai", "/", "deployments", "/">> \o name
         \o <<"/", "chat", "/", "completions", "?api-version=2024-12-01-preview">>

\* C16 (as stated): with an Azure deployment name, the request URL is the
\* base URL brought to end with exactly one slash, then the deployment path,
\* however many trailing slashes the base URL has.
C16_AzureUrlExactlyOneSlash ==
    req # NoRequest /\ cfg.AzureDeploymentName # <<>> =>
        req.URL = AzureEndpoint(StripSlashes(BaseURLInEffect) \o <<"/">>,
                                cfg.AzureDeploymentName)

\* C16 (amended): with an Azure deployment name, the request URL is the base
\* URL, with a slash added when it ends with none, then the deployment path:
\* exactly one slash for a base URL with no or one trailing slash, and every
\* trailing slash kept for a base URL with several.
C16_AzureUrlSlashAddedIfMissing ==
    req # NoRequest /\ cfg.AzureDeploymentName # <<>> =>
        /\ TrailingSlashes(BaseURLInEffect) <= 1 =>
              req.URL = AzureEndpoint(StripSlashes(BaseURLInEffect) \o <<"/">>,
                                      cfg.AzureDeploymentName)
        /\ TrailingSlashes(BaseURLInEffect) >= 1 =>
              req.URL = AzureEndpoint(BaseURLInEffect, cfg.AzureDeploymentName)

C16_Witness ==
    /\ requests = 1
    /\ cfg.AzureDeploymentName = <<"my-deployment">>
    /\ cfg.BaseURL = <<"https:", "/", "/", "myresource.openai.azure.com", "/", "/">>
    /\ req.URL = AzureEndpoint(cfg.BaseURL, cfg.AzureDeploymentName)


\* url without one trailing slash, if it has one
DropOneSlash(url) ==
    IF url # <<>> /\ url[Len(url)] = "/" THEN SubSeq(url, 1, Len(url) - 1) ELSE url

\* "/chat/completions" occurs in url
HasChatCompletions(url) ==
    \E i \in 1..Len(url) :
        /\ i + 3 <= Len(url)
        /\ url[i] = "/" /\ url[i + 1] = "chat"
        /\ url[i + 2] = "/" /\ url[i + 3] = "completions"

C18_FullEndpointVerbatim ==
    req # NoRequest /\ cfg.AzureDeploymentName = <<>>
                    /\ HasChatCompletions(cfg.BaseURL) =>
        req.URL = cfg.BaseURL

C18_Witness ==
    /\ requests = 1
    /\ cfg.AzureDeploymentName = <<>>
    /\ cfg.BaseURL = <<"https:", "/", "/", "api.openai.com", "/", "v1",
                       "/", "chat", "/", "completions", "/">>
    /\ req.URL = cfg.BaseURL


\* C19: with an empty base URL and no Azure deployment name the request URL
\* is "https://api.openai.com/v1/chat/completions".
C19_EmptyBaseUrlDefault ==
    req # NoRequest /\ cfg.AzureDeploymentName = <<>> /\ cfg.BaseURL = <<>> =>
        req.URL = <<"https:", "/", "/", "api.openai.com", "/", "v1",
                    "/", "chat", "/", "completions">>

C19_Witness ==
    /\ requests = 1
    /\ cfg.AzureDeploymentName = <<>>
    /\ cfg.BaseURL = <<>>
    /\ Len(req.URL) = 10
    /\ req.URL[4] = "api.openai.com"


\* the values of the header `name` of the request (names compare without
\* regard to case)
HeaderValues(name) ==
    {x[2] : x \in {y \in req.Header :
                      y[1] \in {name, CanonicalHeaderKey(name)}}}

\* C20: every request carries exactly one authentication header: api-key
\* with the key as it is, and no Authorization, when there is an Azure
\* deployment name; Authorization with "Bearer " and the key, and no api-key,
\* when there is none.  Nothing else of the configuration enters the choice.
C20_ExactlyOneAuthHeader ==
    req # NoRequest =>
        IF cfg.AzureDeploymentName # <<>>
        THEN /\ HeaderValues("api-key") = {cfg.APIKey}
             /\ HeaderValues("Authorization") = {}
        ELSE /\ HeaderValues("Authorization") = {<<"Bearer", " ">> \o cfg.APIKey}
             /\ HeaderValues("api-key") = {}

C20_Witness ==
    /\ requests = 1
    /\ cfg.AzureDeploymentName # <<>>
    /\ cfg.APIKey = <<"test-api-key">>
    /\ HeaderValues("api-key") = {<<"test-api-key">>}
    /\ HeaderValues("Authorization") = {}


\* C21: the body of every request has stream set to true, whether the call
\* is Ask or AskStream.
C21_StreamAlwaysTrue ==
    req # NoRequest => req.Body.stream = TRUE

C21_Witness ==
    /\ mode = "Ask"
    /\ requests = 1
    /\ pc = "done"
    /\ req.Body.stream = TRUE


\* the two messages of a request for question q: the fixed instruction as
\* the system message, then q as the user message
TwoMessages(q) ==
    <<[role |-> <<"system">>,
       content |-> <<"You are an AI assistant being used from a terminal. Provide concise, direct responses optimized for command-line viewing. Prioritize brevity and clarity. Use markdown formatting when helpful for readability. Avoid unnecessary pleasantries or verbose explanations unless specifically requested.">>],
      [role |-> <<"user">>, content |-> q]>>

\* the model name a request carries
ModelInEffect == IF cfg.ModelName = <<>> THEN <<"gpt-4">> ELSE cfg.ModelName

\* C22 (as stated): the body of every request holds the system message and
\* then the user message with the question unchanged, and its model is the
\* configured model name, or gpt-4 when that is empty.
C22_BodyCarriesQuestionUnchanged ==
    req # NoRequest =>
        /\ req.Body.messages = TwoMessages(question)
        /\ req.Body.model = ModelInEffect

\* str is valid UTF-8
ValidUTF8(str) == \A i \in 1..Len(str) : str[i] # "\\xff"

\* str with every byte that is not valid UTF-8 replaced by U+FFFD
Coerced(str) ==
    [i \in 1..Len(str) |-> IF str[i] = "\\xff" THEN "\\ufffd" ELSE str[i]]

\* C22 (amended): the body of every request holds the system message and
\* then the user message, whose content is the question unchanged when the
\* question is valid UTF-8 and the question with every invalid byte replaced
\* by U+FFFD otherwise; its model is the configured model name, or gpt-4.
C22_BodyCarriesQuestionAsUTF8 ==
    req # NoRequest =>
        /\ Len(req.Body.messages) = 2
        /\ ValidUTF8(question) => req.Body.messages = TwoMessages(question)
        /\ ~ValidUTF8(question) =>
              /\ req.Body.messages = TwoMessages(Coerced(question))
              /\ req.Body.messages[2].content # question
        /\ req.Body.model = ModelInEffect

C22_Witness ==
    /\ requests = 1
    /\ cfg.ModelName = <<>>
    /\ req.Body.model = <<"gpt-4">>
    /\ question = <<"h", "\\xff">>
    /\ req.Body.messages[2].content = <<"h", "\\ufffd">>


RECURSIVE SpaceJoined(_)
\* the words with one space between each two
SpaceJoined(words) ==
    IF words = <<>> THEN <<>>
    ELSE IF Tail(words) = <<>> THEN Head(words)
    ELSE Head(words) \o <<" ">> \o SpaceJoined(Tail(words))

\* the joined words, then "\n\nContext:\n", then the stdin content
WithContext(words, content) ==
    SpaceJoined(words) \o <<"\n", "\n", "Context:", "\n">> \o content

\* C23 (as stated): the question the provider is asked is the joined words
\* when the stdin content is empty, the stdin content when there are no
\* argument words, and otherwise the joined words, "\n\nContext:\n" and the
\* stdin content.
C23_QuestionFromWordsAndStdin ==
    calls # <<>> /\ mpc # "off" =>
        question = IF stdinContent = <<>> THEN SpaceJoined(cli.Question)
                   ELSE IF cli.Question = <<>> THEN stdinContent
                   ELSE WithContext(cli.Question, stdinContent)

\* C23 (amended): the question the provider is asked is the joined words
\* when the stdin content is empty, the stdin content when the joined words
\* are the empty string (no words, or one empty word), and otherwise the
\* joined words, "\n\nContext:\n" and the stdin content.
C23_QuestionFromJoinedWordsAndStdin ==
    calls # <<>> /\ mpc # "off" =>
        question = IF stdinContent = <<>> THEN SpaceJoined(cli.Question)
                   ELSE IF SpaceJoined(cli.Question) = <<>> THEN stdinContent
                   ELSE WithContext(cli.Question, stdinContent)

C23_Witness ==
    /\ calls # <<>>
    /\ cli.Question = << <<"a">>, <<"b", "c">> >>
    /\ stdinContent = <<"x", "\n">>
    /\ question = <<"a", " ", "b", "c", "\n", "\n", "Context:", "\n", "x", "\n">>


\* C24: handleQuestion invokes one provider operation, once: Ask with the
\* no-stream flag and AskStream without; a provider error makes it return
\* an error; on success standard output holds the whole answer and a newline.
C24_OneProviderOperation ==
    /\ mpc # "off" => Len(calls) <= 1
    /\ mpc # "off" /\ calls # <<>> =>
          /\ "newProvider" \in did
          /\ calls[1] = IF cli.NoStream THEN "Ask" ELSE "AskStream"
    /\ "newProvider" \in did /\ mpc \in {"returned", "exited"} =>
          /\ Len(calls) = 1
          /\ pc = "done"
          /\ err # Nil => herr # Nil /\ mpc = "exited"
          /\ err = Nil => /\ herr = Nil
                          /\ mpc = "returned"
                          /\ stdout = Concat(delivered) \o <<"\n">>

C24_Witness ==
    /\ mpc = "returned"
    /\ cli.NoStream
    /\ calls = <<"Ask">>
    /\ delivered = << <<"a">>, <<"b", "c">> >>
    /\ stdout = <<"a", "b", "c", "\n">>


\* checkStdin found no content: standard input is a terminal or an empty pipe
NoStdinContent == stdin.kind = "tty" \/ (stdin.kind = "pipe" /\ stdin.data = <<>>)
\* content is piped in
PipedContent == stdin.kind = "pipe" /\ stdin.data # <<>>
\* the configuration file holds a valid configuration
GoodConfig == file.kind = "ok" /\ file.config.APIKey # <<>>

\* C25: without the version flag, with no question words and no stdin
\* content main writes the usage text and returns: the configuration is not
\* loaded, the provider is not called, exit is not called.  With no question
\* words and piped content main goes on to load the configuration and, the
\* configuration being valid, to ask the provider.
C25_UsageOnlyWithoutInput ==
    /\ [](~cli.Version /\ cli.Question = <<>> /\ NoStdinContent =>
            /\ mpc \in {"start", "stdin", "returned"}
            /\ "load" \notin did
            /\ "newProvider" \notin did
            /\ calls = <<>>
            /\ exits = <<>>
            /\ mpc = "returned" => stdout = <<"Usage: si [<question> ...]", "\n">>)
    /\ (mpc = "start" /\ ~cli.Version /\ cli.Question = <<>> /\ NoStdinContent)
           ~> (mpc = "returned")
    /\ (mpc = "start" /\ ~cli.Version /\ cli.Question = <<>> /\ PipedContent)
           ~> ("load" \in did /\ (GoodConfig => calls # <<>>))

C25_Witness ==
    /\ mpc = "returned"
    /\ ~cli.Version
    /\ cli.Question = <<>>
    /\ stdin.kind = "tty"
    /\ stdout = <<"Usage: si [<question> ...]", "\n">>
    /\ did = {"stat"}


\* C26: when loading the configuration failed, or the loaded configuration
\* failed validation, main has called exit with code 1, and no provider was
\* created and no request was sent.
C26_BadConfigExitsBeforeProvider ==
    ("load" \in did /\ file.kind # "ok") \/
    ("validate" \in did /\ Validate(loaded) # Nil) =>
        /\ mpc = "exited"
        /\ exits = <<1>>
        /\ "newProvider" \notin did
        /\ calls = <<>>
        /\ requests = 0

C26_Witness ==
    /\ mpc = "exited"
    /\ file.kind = "badYaml"
    /\ "load" \in did
    /\ exits = <<1>>
    /\ calls = <<>>


\* C27: validation fails exactly when the API key is the empty string,
\* whatever the base URL, the model name and the Azure deployment name are.
C27_ValidateIffNoApiKey ==
    "validate" \in did =>
        (("newProvider" \notin did /\ mpc = "exited") <=> loaded.APIKey = <<>>)

C27_Witness ==
    /\ "validate" \in did
    /\ mpc = "exited"
    /\ loaded.APIKey = <<>>
    /\ loaded.BaseURL # <<>>
    /\ loaded.ModelName # <<>>
    /\ loaded.AzureDeploymentName # <<>>


\* C28: with the version flag main writes the version line and returns: it
\* does not read stdin, load the configuration, call the provider or call
\* exit, whatever the other arguments are.
C28_VersionOnly ==
    /\ [](cli.Version /\ mpc # "off" =>
            /\ mpc \in {"start", "returned"}
            /\ did = {}
            /\ calls = <<>>
            /\ exits = <<>>
            /\ mpc = "returned" => stdout = <<"si version 0.1.0", "\n">>)
    /\ (cli.Version /\ mpc = "start") ~> (mpc = "returned")

C28_Witness ==
    /\ mpc = "returned"
    /\ cli.Version
    /\ cli.NoStream
    /\ Len(cli.Question) = 2
    /\ stdin.kind = "pipe"
    /\ stdout = <<"si version 0.1.0", "\n">>


\* C29: the fragments are delivered in the order of the lines and, within a
\* line, of its choices array, a choice with empty content being left out;
\* whenever the call is between two lines, every fragment of the lines read
\* so far has been delivered and none of a later line.
C29_ChoicesInArrayOrder ==
    /\ IsPrefixOf(delivered, ScriptFragments(script))
    /\ pc = "read" =>
          delivered = ScriptFragments(SubSeq(script, 1, LinesRead))

C29_Witness ==
    /\ pc = "done"
    /\ err = Nil
    /\ script = <<"multi", "chunkA">>
    /\ delivered = << <<"x">>, <<"y">>, <<"a">> >>


\* C30: a line that does not start with "data: " is skipped without a
\* callback invocation and without an error, JSON or not, and the lines after
\* it are decoded.
C30_NonDataLineSkipped ==
    (Undisturbed /\ status = StatusOK /\ tail = "none"
        /\ \A i \in 1..Len(script) : script[i] \in
              {"comment", "event", "nospace", "nospacebad", "text", "chunkA"}) =>
        /\ err = Nil
        /\ LinesRead = Len(script)
        /\ delivered = [i \in 1..Cardinality(Among("chunkA", Len(script))) |-> <<"a">>]

C30_Witness ==
    /\ pc = "done"
    /\ err = Nil
    /\ script = <<"nospacebad", "chunkA">>
    /\ LinesRead = 2
    /\ delivered = << <<"a">> >>

\* ---------------------------------------------------------------------------
\* C31: for a status-200 body served to its end, ending lines by "\r\n"
\* instead of "\n", or writing spaces and tabs around lines, changes neither
\* the sequence of callback invocations nor the returned error: a call
\* against the rewritten body ends like the same call against the original
\* one.  In particular "data: [DONE]\r\n" is skipped like "data: [DONE]\n".
SameCallAsBefore ==
    /\ pc = "done"
    /\ prev # <<>>
    /\ gotResp
    /\ prev[1].gotResp
    /\ mode = prev[1].mode
    /\ cbFailAt = prev[1].cbFailAt

C31_LineEndingsAndPaddingIgnored ==
    SameCallAsBefore =>
        /\ delivered = prev[1].delivered
        /\ err = prev[1].err

\* reached: chunk and sentinel, both ended by "\r\n", decoded like before
C31_Witness ==
    /\ SameCallAsBefore
    /\ script = <<"chunkA", "done">>
    /\ body = RenderStyled(script, <<"crlf", "crlf">>, tail)
    /\ mode = "AskStream"
    /\ delivered = << <<"a">> >>
    /\ err = Nil
\* s is the beginning of t
IsPrefix(s, t) == Len(s) <= Len(t) /\ SubSeq(t, 1, Len(s)) = s

\* the body ends in a line without newline, after lines that all decode
UnterminatedLastLine ==
    /\ status = StatusOK
    /\ tail # "none"
    /\ FirstBad > Len(script)

\* C32: the bytes after the last newline of the body are never decoded: the
\* callback is only ever invoked for fragments of newline-terminated lines,
\* a decode error only ever comes from a newline-terminated line, and a call
\* that read the body to its end returns nil having delivered the
\* fragments of the terminated lines, also when the unterminated last line
\* is a data chunk with content or a malformed data line.
C32_UnterminatedLastLineIgnored ==
    /\ IsPrefix(delivered, ScriptFragments(script))
    /\ err.kind = "parse" => FirstBad <= Len(script)
    /\ (Undisturbed /\ UnterminatedLastLine) =>
          /\ err = Nil
          /\ rdPos = Len(body)
          /\ delivered = ScriptFragments(script)

\* reached: a chunk line, then a malformed data line without newline
C32_Witness ==
    /\ Undisturbed
    /\ UnterminatedLastLine
    /\ script = <<"chunkA">>
    /\ tail = "bad"
    /\ rdPos = Len(body)
    /\ err = Nil
    /\ delivered = << <<"a">> >>
\* the errors AskStream returns, by kind
AskStreamErrorKinds == {"create", "send", "status", "read", "parse"}

\* Ask has returned an error
AskFailed ==
    /\ pc = "done"
    /\ mode = "Ask"
    /\ err # Nil

\* C33: when AskStream fails under Ask (status error, read error, decode
\* error, cancellation), Ask returns the empty string and AskStream's error,
\* not wrapped: the fragments its builder holds are not returned.
C33_AskFailureReturnsNothing ==
    AskFailed =>
        /\ ret = <<>>
        /\ err.kind \in AskStreamErrorKinds
        /\ err.kind = "status" <=> (gotResp /\ StatusIsError(status))
        /\ err.kind = "parse" <=> (FirstBad <= LinesRead)
        /\ err.kind = "send" <=> ~gotResp

\* reached: the context is cancelled after a fragment went into the builder
C33_Witness ==
    /\ AskFailed
    /\ cancelled
    /\ err = Err("read", 0, <<>>, "ctxCanceled")
    /\ result = <<"a">>
    /\ ret = <<>>
\* a second call on the provider has built its request, or failed to
SecondCallStarted == prev # <<>> /\ pc # "idle"

\* C34: no step of Ask or AskStream changes the provider's configuration,
\* whether the call succeeds or fails, and the second of two calls on one
\* provider builds the request of the first: same URL, same headers, same
\* model (and the same failure when the URL cannot be parsed).
C34_ConfigNeverModified ==
    /\ [][cfg' = cfg]_vars
    /\ [](SecondCallStarted =>
            /\ cfg = prev[1].cfg
            /\ req = prev[1].req
            /\ err.kind = "create" <=> prev[1].err.kind = "create")

\* reached: the second call on a provider with an empty base URL, an empty
\* model name and an Azure deployment, after the first call failed
C34_Witness ==
    /\ SecondCallStarted
    /\ pc = "done"
    /\ prev[1].err.kind = "status"
    /\ cfg = OpenAIConfig(<<>>, <<"test-api-key">>, <<>>, <<"my-deployment">>)
    /\ req.URL = DefaultBaseURL \o Slash \o AzurePath(<<"my-deployment">>)
    /\ req = prev[1].req
\* the request of a provider with an Azure deployment name whose base URL
\* holds "/chat/completions"
AzureWithFullEndpoint ==
    /\ req # NoRequest
    /\ cfg.AzureDeploymentName # <<>>
    /\ HasChatCompletions(cfg.BaseURL)

\* C35: with an Azure deployment name the request URL has the Azure shape
\* also when the base URL contains "/chat/completions": it is the base URL
\* followed by the deployment path (after a slash, when the base URL ends
\* with none), never the base URL as it is.
C35_AzureWinsOverFullEndpoint ==
    AzureWithFullEndpoint =>
        /\ req.URL # cfg.BaseURL
        /\ IsPrefix(cfg.BaseURL, req.URL)
        /\ SubSeq(req.URL, Len(cfg.BaseURL) + 1, Len(req.URL)) \in
              {AzureEndpoint(<<>>, cfg.AzureDeploymentName),
               AzureEndpoint(<<"/">>, cfg.AzureDeploymentName)}

C35_Witness ==
    /\ AzureWithFullEndpoint
    /\ requests = 1
    /\ cfg.BaseURL = <<"https:", "/", "/", "api.openai.com", "/", "v1",
                       "/", "chat", "/", "completions">>
    /\ req.URL = AzureEndpoint(cfg.BaseURL \o <<"/">>, <<"my-deployment">>)

\* the request of a provider with an Azure deployment name and no base URL
AzureWithoutBaseURL ==
    /\ req # NoRequest
    /\ cfg.AzureDeploymentName # <<>>
    /\ cfg.BaseURL = <<>>

\* C36: with an Azure deployment name and an empty base URL the default base
\* URL is substituted before the Azure path is built: the request goes to
\* https://api.openai.com/v1/openai/deployments/{name}/chat/completions
\* ?api-version=2024-12-01-preview and carries the key in the api-key
\* header.
C36_AzureOnDefaultBaseURL ==
    AzureWithoutBaseURL =>
        /\ req.URL = <<"https:", "/", "/", "api.openai.com", "/", "v1", "/",
                       "openai", "/", "deployments", "/">>
                        \o cfg.AzureDeploymentName
                        \o <<"/", "chat", "/", "completions",
                             "?api-version=2024-12-01-preview">>
        /\ <<"Api-Key", cfg.APIKey>> \in req.Header
        /\ \A h \in req.Header : h[1] # "Authorization"

C36_Witness ==
    /\ AzureWithoutBaseURL
    /\ requests = 1
    /\ cfg.APIKey = <<"test-api-key">>
    /\ cfg.AzureDeploymentName = <<"my-deployment">>
    /\ <<"Api-Key", <<"test-api-key">> >> \in req.Header
    /\ req.URL[4] = "api.openai.com"
\* the whole lines the transport serves before it fails
LinesBeforeFailure == Cardinality(Newlines(0, failAt))

\* C37: when reading the body fails with an error that is not end-of-stream
\* (the transport failed, or ctx was cancelled), AskStream returns an error
\* that wraps the read error and never nil; the callback has been invoked
\* for the fragments of the whole lines read before the failure and for
\* nothing else: the partial line that came with the error is dropped.
C37_ReadErrorReported ==
    /\ err.kind = "read" =>
          /\ pc = "done"
          /\ err \in {Err("read", 0, <<>>, "readFail"),
                       Err("read", 0, <<>>, "ctxCanceled")}
          /\ err.cause = "ctxCanceled" => cancelled
          /\ rdPos = fillPos
          /\ delivered = ScriptFragments(SubSeq(script, 1, LinesRead))
    /\ (pc = "done" /\ gotResp) =>
          /\ err # Nil
          /\ (cbFailAt = 0 /\ ~cancelled /\ FirstBad > LinesBeforeFailure) =>
                /\ err = Err("read", 0, <<>>, "readFail")
                /\ LinesRead = LinesBeforeFailure
                /\ rdPos = failAt

\* reached: the transport fails after a chunk line and the bytes of a second
\* chunk, before the newline of the second
C37_Witness ==
    /\ pc = "done"
    /\ script = <<"chunkA", "chunkB">>
    /\ failAt = Len(body) - 1
    /\ rdPos = failAt
    /\ err = Err("read", 0, <<>>, "readFail")
    /\ delivered = << <<"a">> >>
====
